---- MODULE Spec2Model ----
(***************************************************************************)
(* State-machine model of the chat / panel / editable-grid front end of    *)
(* srjmnh/student_ai.                                                      *)
(*                                                                         *)
(* The repository ships two variants of the page script:                   *)
(*   "scripts"  : src/static/js/scripts.js  (students + grades panels)     *)
(*   "part_002" : src/unnamed/part_002      (students panel only)          *)
(* A page loads one of them; the variable `script` says which.             *)
(*                                                                         *)
(* Text is a sequence of tokens (one-token words, " " for white space), so *)
(* that trim(), includes() and string concatenation are computed.          *)
(* A student row keeps cells[0..4] of its <tr> (the cells that decide the  *)
(* control flow); cells[5..10] are copied verbatim into the update by the  *)
(* code and are left out.                                                  *)
(***************************************************************************)
EXTENDS Integers, Sequences, FiniteSets, Bags, TLC

VARIABLES
  script,       \* which script file the page runs
  tableShown,   \* tablePanel.classList has 'show'
  slideLeft,    \* chatSection.classList has 'slideLeft'
  gradesShown,  \* gradesSection.classList has 'show'
  tbody,        \* tablePanel holds a <table><tbody>
  rows,         \* the <tr> elements of tablePanel's tbody, in document order
  gradeRows,    \* the <tr> elements of #gradesContent's tbody
  options,      \* classDivisionFilter options after the first
  chatBody,     \* children of chatBody: bubbles and typing indicators
  net,          \* bag of the requests issued by fetch() and not yet settled
  toastLog,     \* showToast calls of the last handler run, in order
  confirmLog,   \* confirm() prompts of the last handler run and their answers
  thrown,       \* the last handler run ended with an uncaught exception
  response,     \* what settled in the last step: <<>>, or the request with its
                \* JSON body (ok) or with the rejection of its fetch (~ok)
  store,        \* the grades the remote store holds (followed by SpecGrades only)
  closed        \* the user closed the grades panel and has not asked to open it
                \* since (followed by SpecGrades only)

vars == <<script, tableShown, slideLeft, gradesShown, tbody, rows, gradeRows,
          options, chatBody, net, toastLog, confirmLog, thrown, response,
          store, closed>>

(***************************************************************************)
(* Bounds of the model.                                                    *)
(***************************************************************************)
MaxRows == 2
MaxNet == 2
MaxChat == 2
MaxListeners == 2

(***************************************************************************)
(* Text.                                                                   *)
(***************************************************************************)
RECURSIVE TrimLeft(_), TrimRight(_)
TrimLeft(s) ==
  IF s # <<>> /\ Head(s) = " " THEN TrimLeft(Tail(s)) ELSE s

TrimRight(s) ==
  IF s # <<>> /\ s[Len(s)] = " " THEN TrimRight(SubSeq(s, 1, Len(s) - 1)) ELSE s

trim(s) == TrimRight(TrimLeft(s))

includes(s, sub) ==
  \E i \in 0..(Len(s) - Len(sub)) : SubSeq(s, i + 1, i + Len(sub)) = sub

\* JavaScript truthiness of a string; an absent field is modelled as "".
Truthy(s) == s # <<>>

Or(a, b) == IF Truthy(a) THEN a ELSE b

(***************************************************************************)
(* Inputs: what the user types and what the server answers.                *)
(***************************************************************************)
\* The placeholder of the identity cell (addNewRow, and the header check).
ID == <<"ID">>

\* What the user may type into the prompt box.
Prompts == { <<" ">>, <<"list students">> }

\* Markup of the <tr>s a table reply may carry: cells[0..4] of each.
ServerRow(tok) ==
  CASE tok = "<tr:1>"  -> << <<"1">>, <<"Ann">>, <<"12">>, <<"5">>, <<"B">> >>
    [] tok = "<tr:2>"  -> << <<"2">>, <<" ">>, <<"12">>, <<"5">>, <<"B">> >>
    [] tok = "<tr:ID>" -> << <<" ", "ID">>, <<"Name">>, <<"Age">>, <<"Class">>, <<"Division">> >>

RowTokens == {"<tr:1>", "<tr:2>", "<tr:ID>"}

\* Replies of /process_prompt to a prompt.
Replies ==
  { <<"Hello">>,
    <<"slideFromRight">>,
    <<"<table", "<tbody", "<tr:1>", "<tr:2>">>,
    <<"<table", "<tbody", "<tr:ID>">>,
    <<"<table", "<tbody", "Grades">> }

\* Error strings of the server.
Errors == { <<"stale id">> }

\* Texts the user may type into the cells[k] of a student row (k = 0..4).
CellTexts(k) ==
  CASE k = 0 -> { <<"7">> }
    [] k = 1 -> { <<>> }
    [] OTHER -> { }

\* JSON bodies of the responses; an absent field is "" (both are falsy).
MessageData == { [message |-> <<"ok">>, error |-> <<>>] }
ErrorData == { [message |-> <<>>, error |-> e] : e \in Errors }
EmptyData == { [message |-> <<>>, error |-> <<>>] }

\* The rejection of a fetch() or of response.json(), as it prints.
NetErr == <<"TypeError: Failed to fetch">>

(***************************************************************************)
(* Notifier and conversation log.                                          *)
(***************************************************************************)
\* showToast(message, type): one call.
showToast(message, type) == [msg |-> message, type |-> type]

\* addBubble(text, isUser): the child appended to chatBody.
addBubble(text, isUser) ==
  [kind |-> IF isUser THEN "user-msg" ELSE "ai-msg", text |-> text]

\* addTypingIndicator(): the child appended to chatBody.
addTypingIndicator == [kind |-> "typingIndicator", text |-> <<"Typing...">>]

removeTypingIndicator_FirstChild(chat) == IF chat = <<>> THEN <<>> ELSE Tail(chat)

\* removeTypingIndicator(): getElementById finds the first one in the document.
RECURSIVE removeTypingIndicator(_)
removeTypingIndicator(chat) ==
  IF chat = <<>> THEN <<>>
  ELSE IF Head(chat).kind = "typingIndicator" THEN Tail(chat)
  ELSE <<Head(chat)>> \o removeTypingIndicator(Tail(chat))

(***************************************************************************)
(* Elements of the student grid.                                           *)
(***************************************************************************)
\* The row elements some settled-later request still refers to.
NetEls == { r.el : r \in { q \in BagToSet(net) : q.kind = "delete_student" } }

\* A removed element is forgotten once nothing refers to it.
UsedEls == { rows[i].el : i \in 1..Len(rows) } \cup NetEls

\* The n-th fresh element identity (n >= 1).
RECURSIVE FreshEl(_, _)
FreshEl(used, n) ==
  LET e == CHOOSE x \in 1..(Cardinality(used) + 1) : x \notin used
  IN  IF n = 1 THEN e ELSE FreshEl(used \cup {e}, n - 1)

\* A <tr> of the student grid: its identity as an element, its cells' text,
\* the number of click listeners on its delete button, and whether its
\* identity cell is contenteditable.
Row(el, cells, listeners, idEditable) ==
  [el |-> el, cells |-> cells, listeners |-> listeners, idEditable |-> idEditable]

\* cells[k].innerText of a row, k counted from 0 as in the code.
Cell(r, k) == r.cells[k + 1]

\* tablePanel.innerHTML = reply: the rows the browser builds from the markup.
ParseRows(reply) ==
  LET toks == SelectSeq(reply, LAMBDA t : t \in RowTokens)
  IN  IF includes(reply, <<"<table">>) /\ includes(reply, <<"<tbody">>)
      THEN [i \in 1..Len(toks) |->
              Row(FreshEl(NetEls, i), ServerRow(toks[i]), 0, FALSE)]
      ELSE <<>>

\* initializeTableFunctionality(): one more click listener on every
\* .btn-delete-row of tablePanel.
initializeTableFunctionality(rs) ==
  [i \in 1..Len(rs) |-> [rs[i] EXCEPT !.listeners = @ + 1]]

MaxListenersOf(rs) ==
  IF rs = <<>> THEN 0
  ELSE CHOOSE m \in { rs[i].listeners : i \in 1..Len(rs) } :
         \A i \in 1..Len(rs) : rs[i].listeners <= m

(***************************************************************************)
(* saveTableEdits: building the update set.                                *)
(***************************************************************************)
\* scripts.js calls _safe_int(age); no file of the repository defines it, so
\* the call throws a ReferenceError.
safe_int_defined == FALSE

SkipRow_KeepsPlaceholder(sid) == ~Truthy(sid)

\* if (!sid || sid === 'ID') return;
SkipRow(sid) == ~Truthy(sid) \/ sid = ID

MissingRequired_Never(name, sclass, division) == FALSE

\* if (!name || !sclass || !division): only scripts.js validates.
MissingRequired(name, sclass, division) ==
  script = "scripts" /\ (~Truthy(name) \/ ~Truthy(sclass) \/ ~Truthy(division))

MissingToast(sid) ==
  showToast(<<"Student ID ">> \o sid
              \o <<" is missing 'Name', 'Class', or 'Division'. Please fill them in.">>,
            "warning")

\* The object pushed for a row by part_002 (cells[4] is the address there).
Update(r) ==
  [id |-> trim(Cell(r, 0)), name |-> trim(Cell(r, 1)), age |-> trim(Cell(r, 2)),
   class |-> trim(Cell(r, 3)), address |-> trim(Cell(r, 4))]

\* rows.forEach(r => ...): the updates pushed, the toasts shown, and whether
\* the callback threw (which ends the loop and the handler).
RECURSIVE ForEachRow(_, _)
ForEachRow(rs, acc) ==
  IF rs = <<>> THEN acc
  ELSE LET r == Head(rs)
           sid == trim(Cell(r, 0))
       IN  IF SkipRow(sid) THEN ForEachRow(Tail(rs), acc)
           ELSE IF MissingRequired(trim(Cell(r, 1)), trim(Cell(r, 3)), trim(Cell(r, 4)))
             THEN ForEachRow(Tail(rs),
                             [acc EXCEPT !.toasts = Append(@, MissingToast(sid))])
           ELSE IF script = "scripts" /\ ~safe_int_defined
             THEN [acc EXCEPT !.thrown = TRUE]
           ELSE ForEachRow(Tail(rs), [acc EXCEPT !.updates = Append(@, Update(r))])

ExtractUpdates(rs) == ForEachRow(rs, [updates |-> <<>>, toasts |-> <<>>, thrown |-> FALSE])

(***************************************************************************)
(* Requests.                                                               *)
(***************************************************************************)
\* fetch(): k more requests r in flight.
Issue(n, r, k) == IF k = 0 THEN n ELSE n (+) [x \in {r} |-> k]

\* A request settles: its promise resolves or rejects, once.
Settle(n, r) == n (-) SetToBag({r})

InFlight == BagCardinality(net)

Pending(kind) == { r \in BagToSet(net) : r.kind = kind }

\* The awaited promise resolved with the JSON body `data`, or rejected.
Resolved(req, data) == <<[req |-> req, ok |-> TRUE, data |-> data]>>
Rejected(req) == <<[req |-> req, ok |-> FALSE]>>

(***************************************************************************)
(* Initial state: the page as loaded, no panel open, nothing in flight.    *)
(***************************************************************************)
Init ==
  /\ script \in {"scripts", "part_002"}
  /\ tableShown = FALSE
  /\ slideLeft = FALSE
  /\ gradesShown = FALSE
  /\ tbody = FALSE
  /\ rows = <<>>
  /\ gradeRows = <<>>
  /\ options = <<>>
  /\ chatBody = <<>>
  /\ net = EmptyBag
  /\ toastLog = <<>>
  /\ confirmLog = <<>>
  /\ thrown = FALSE
  /\ response = <<>>
  /\ store = <<>>
  /\ closed = FALSE

(***************************************************************************)
(* Conversation: sendPrompt and parseReply.                                *)
(***************************************************************************)
\* sendPrompt() up to its first await, the user typing one of `prompts`
\* while the log has room for maxChat children.
sendPromptFrom(prompts, maxChat) ==
  \E p \in prompts :
    LET prompt == trim(p)
    IN  /\ toastLog' = <<>> /\ confirmLog' = <<>> /\ thrown' = FALSE
        /\ IF ~Truthy(prompt)
             THEN UNCHANGED <<chatBody, net>>
             ELSE /\ Len(chatBody) + 2 <= maxChat
                  /\ InFlight < MaxNet
                  /\ chatBody' = chatBody \o <<addBubble(prompt, TRUE), addTypingIndicator>>
                  /\ net' = Issue(net, [kind |-> "process_prompt", prompt |-> prompt], 1)
        /\ response' = <<>>
        /\ UNCHANGED <<store, closed, script, tableShown, slideLeft, gradesShown, tbody, rows,
                       gradeRows, options>>

sendPrompt == sendPromptFrom(Prompts, MaxChat)

\* The test of parseReply.
IsTableReply(reply) ==
  includes(reply, <<"<table">>) \/ includes(reply, <<"slideFromRight">>)

\* parseReply(reply), run on the conversation log `chat` and the requests `n`.
parseReply(reply, chat, n) ==
  IF IsTableReply(reply)
  THEN /\ rows' = initializeTableFunctionality(ParseRows(reply))
       /\ tbody' = (includes(reply, <<"<table">>) /\ includes(reply, <<"<tbody">>))
       /\ tableShown' = TRUE
       /\ slideLeft' = TRUE
       /\ chatBody' = chat
       /\ toastLog' = <<>>
       \* populateClassDivisionFilter(), of scripts.js only
       /\ IF script = "scripts"
            THEN /\ options' = <<>>
                 /\ net' = Issue(n, [kind |-> "get_unique_class_divisions"], 1)
            ELSE /\ net' = n
                 /\ UNCHANGED options
  ELSE /\ chatBody' = Append(chat, addBubble(reply, FALSE))
       /\ toastLog' = <<showToast(<<"New message received.">>, "success")>>
       /\ net' = n
       /\ UNCHANGED <<rows, tbody, tableShown, slideLeft, options>>

\* sendPrompt() after its awaits: the response arrived, or the request failed;
\* the log has room for maxChat children.
sendPromptResolveWithin(maxChat) ==
  \E req \in Pending("process_prompt") :
    /\ confirmLog' = <<>> /\ thrown' = FALSE
    /\ \/ \E data \in { [message |-> m, error |-> <<>>] : m \in Replies }
                       \cup ErrorData \cup EmptyData :
            /\ response' = Resolved(req, data)
            /\ parseReply(Or(data.message, Or(data.error, <<"No response.">>)),
                          removeTypingIndicator(chatBody), Settle(net, req))
       \/ /\ response' = Rejected(req)
          /\ chatBody' = Append(removeTypingIndicator(chatBody),
                                addBubble(<<"Error connecting to server: ">> \o NetErr, FALSE))
          /\ toastLog' = <<showToast(<<"Error connecting to server.">>, "danger")>>
          /\ net' = Settle(net, req)
          /\ UNCHANGED <<rows, tbody, tableShown, slideLeft, options>>
    /\ Len(chatBody') <= maxChat
    /\ UNCHANGED <<store, closed, script, gradesShown, gradeRows>>

sendPromptResolve == sendPromptResolveWithin(MaxChat)

\* populateClassDivisionFilter() after its fetch.
populateClassDivisionFilterResolve ==
  \E req \in Pending("get_unique_class_divisions") :
    /\ confirmLog' = <<>> /\ thrown' = FALSE
    /\ net' = Settle(net, req)
    /\ \/ \E cds \in { <<"5B">> } :
            /\ response' = Resolved(req, [class_divisions |-> cds])
            /\ options' = options \o cds
            /\ toastLog' = <<>>
       \/ /\ response' = Rejected(req)
          /\ toastLog' = <<showToast(<<"Error fetching class-divisions.">>, "danger")>>
          /\ UNCHANGED options
    /\ UNCHANGED <<store, closed, script, tableShown, slideLeft, gradesShown, tbody, rows,
                   gradeRows, chatBody>>

(***************************************************************************)
(* Student grid: delete, add, edit, save, close.                           *)
(* Its controls are on tablePanel, which is off screen unless shown.       *)
(***************************************************************************)
\* What deleteStudent() issues.
DeleteStudentRequest(studentId, el) ==
  [kind |-> "delete_student", id |-> studentId, el |-> el]

Confirmed_Always(answer) == TRUE

\* if (confirm(...)) deleteStudent(studentId, row);
\* if (!confirm(...)) return;
Confirmed(answer) == answer

IsHeaderRow_Never(studentId) == FALSE

\* if (studentId === 'ID')
IsHeaderRow(studentId) == studentId = ID

\* A click on the delete button of rows[i]: every listener attached by
\* initializeTableFunctionality runs, each asking its own confirm().
DeleteClickOn(i) ==
    LET row == rows[i]
        n == row.listeners
        studentId == trim(Cell(row, 0))
    IN  /\ tableShown
        /\ n >= 1
        /\ thrown' = FALSE
        /\ response' = <<>>
        /\ IF IsHeaderRow(studentId)
             THEN /\ toastLog' = [k \in 1..n |->
                                   showToast(<<"Cannot delete header row.">>, "warning")]
                  /\ confirmLog' = <<>>
                  /\ UNCHANGED net
             ELSE \E answers \in [1..n -> BOOLEAN] :
                    LET go == SelectSeq([k \in 1..n |-> Confirmed(answers[k])],
                                        LAMBDA b : b)
                    IN  /\ InFlight + Len(go) <= MaxNet
                        /\ toastLog' = <<>>
                        /\ confirmLog' = [k \in 1..n |->
                                            [kind |-> "student", about |-> studentId,
                                             answer |-> answers[k]]]
                        /\ net' = Issue(net, DeleteStudentRequest(studentId, row.el),
                                        Len(go))
        /\ UNCHANGED <<store, closed, script, tableShown, slideLeft, gradesShown, tbody, rows,
                       gradeRows, options, chatBody>>

DeleteClick == \E i \in 1..Len(rows) : DeleteClickOn(i)

\* rowElement.remove()
RemoveRow(rs, el) == SelectSeq(rs, LAMBDA r : r.el # el)

deleteStudentResolve_Optimistic ==
  \E req \in Pending("delete_student") :
    /\ confirmLog' = <<>> /\ thrown' = FALSE
    /\ net' = Settle(net, req)
    /\ rows' = RemoveRow(rows, req.el)
    /\ \/ \E data \in MessageData \cup ErrorData \cup EmptyData :
            /\ response' = Resolved(req, data)
            /\ toastLog' = IF Truthy(data.message)
                           THEN <<showToast(data.message, "success")>>
                           ELSE IF Truthy(data.error)
                           THEN <<showToast(data.error, "danger")>>
                           ELSE <<>>
       \/ /\ response' = Rejected(req)
          /\ toastLog' = <<showToast(<<"Error deleting student.">>, "danger")>>
    /\ UNCHANGED <<store, closed, script, tableShown, slideLeft, gradesShown, tbody, gradeRows,
                   options, chatBody>>

\* deleteStudent() after its awaits.
deleteStudentResolve ==
  \E req \in Pending("delete_student") :
    /\ confirmLog' = <<>> /\ thrown' = FALSE
    /\ net' = Settle(net, req)
    /\ \/ \E data \in MessageData \cup ErrorData \cup EmptyData :
            /\ response' = Resolved(req, data)
            /\ IF Truthy(data.message)
                 THEN /\ toastLog' = <<showToast(data.message, "success")>>
                      /\ rows' = RemoveRow(rows, req.el)
                 ELSE IF Truthy(data.error)
                 THEN /\ toastLog' = <<showToast(data.error, "danger")>>
                      /\ UNCHANGED rows
                 ELSE /\ toastLog' = <<>>
                      /\ UNCHANGED rows
       \/ /\ response' = Rejected(req)
          /\ toastLog' = <<showToast(<<"Error deleting student.">>, "danger")>>
          /\ UNCHANGED rows
    /\ UNCHANGED <<store, closed, script, tableShown, slideLeft, gradesShown, tbody, gradeRows,
                   options, chatBody>>

\* The <tr> of addNewRow: the identity cell is contenteditable="false" in
\* scripts.js and "true" in part_002, whose fifth cell is the address.
NewRow(el) ==
  IF script = "scripts"
  THEN Row(el, << ID, <<"Name">>, <<"Age">>, <<"Class">>, <<"Division">> >>, 0, FALSE)
  ELSE Row(el, << ID, <<"Name">>, <<"Age">>, <<"Class">>, <<"Address">> >>, 0, TRUE)

\* addNewRow(): without a <table><tbody> in the panel, tbody is null and
\* tbody.appendChild throws.
addNewRow ==
  /\ tableShown
  /\ toastLog' = <<>> /\ confirmLog' = <<>>
  /\ IF ~tbody
       THEN /\ thrown' = TRUE
            /\ UNCHANGED rows
       ELSE /\ Len(rows) < MaxRows
            /\ MaxListenersOf(rows) < MaxListeners
            /\ thrown' = FALSE
            /\ rows' = initializeTableFunctionality(
                          Append(rows, NewRow(FreshEl(UsedEls, 1))))
  /\ response' = <<>>
  /\ UNCHANGED <<store, closed, script, tableShown, slideLeft, gradesShown, tbody, gradeRows,
                 options, chatBody, net>>

\* The user types into a contenteditable cell of the student grid.
EditCell ==
  \E i \in 1..Len(rows) : \E k \in 0..4 : \E t \in CellTexts(k) :
    /\ tableShown
    /\ k = 0 => rows[i].idEditable
    /\ rows' = [rows EXCEPT ![i].cells[k + 1] = t]
    /\ toastLog' = <<>> /\ confirmLog' = <<>> /\ thrown' = FALSE
    /\ response' = <<>>
    /\ UNCHANGED <<store, closed, script, tableShown, slideLeft, gradesShown, tbody, gradeRows,
                   options, chatBody, net>>

\* saveTableEdits() up to its first await.
saveTableEdits ==
  LET got == ExtractUpdates(rows)
  IN  /\ tableShown
      /\ confirmLog' = <<>>
      /\ thrown' = got.thrown
      /\ IF got.thrown
           THEN /\ toastLog' = got.toasts
                /\ UNCHANGED net
           ELSE IF Len(got.updates) = 0
           THEN /\ toastLog' = Append(got.toasts,
                                      showToast(<<"No valid changes to save.">>, "warning"))
                /\ UNCHANGED net
           ELSE /\ InFlight < MaxNet
                /\ toastLog' = got.toasts
                /\ net' = Issue(net, [kind |-> "bulk_update_students",
                                      updates |-> got.updates], 1)
      /\ response' = <<>>
      /\ UNCHANGED <<store, closed, script, tableShown, slideLeft, gradesShown, tbody, rows,
                     gradeRows, options, chatBody>>

\* JSON bodies of /bulk_update_students.
SaveData ==
  { [success |-> TRUE, error |-> <<>>], [success |-> FALSE, error |-> <<>>] }
    \cup { [success |-> FALSE, error |-> e] : e \in Errors }

SaveErrorText_Generic(data) == <<"Error saving changes: ", "unknown">>

\* "Error saving changes: " + (data.error || 'unknown')
SaveErrorText(data) == <<"Error saving changes: ">> \o Or(data.error, <<"unknown">>)

saveTableEditsResolve_ClearsGrid ==
  \E req \in Pending("bulk_update_students") :
    /\ Len(chatBody) < MaxChat
    /\ confirmLog' = <<>> /\ thrown' = FALSE
    /\ net' = Settle(net, req)
    /\ \E data \in SaveData :
         /\ response' = Resolved(req, data)
         /\ chatBody' = Append(chatBody, addBubble(SaveErrorText(data), FALSE))
         /\ toastLog' = <<showToast(<<"Error saving changes.">>, "danger")>>
         /\ tableShown' = FALSE
         /\ slideLeft' = FALSE
         /\ rows' = <<>>
    /\ UNCHANGED <<store, closed, script, gradesShown, tbody, gradeRows, options>>

\* saveTableEdits() after its awaits.
saveTableEditsResolve ==
  \E req \in Pending("bulk_update_students") :
    /\ Len(chatBody) < MaxChat
    /\ confirmLog' = <<>> /\ thrown' = FALSE
    /\ net' = Settle(net, req)
    /\ \/ \E data \in SaveData :
            /\ response' = Resolved(req, data)
            /\ IF data.success
                 THEN /\ chatBody' = Append(chatBody,
                                            addBubble(<<"Changes saved to Firebase!">>, FALSE))
                      /\ toastLog' = <<showToast(<<"Changes saved successfully!">>, "success")>>
                 ELSE /\ chatBody' = Append(chatBody,
                                            addBubble(SaveErrorText(data), FALSE))
                      /\ toastLog' = <<showToast(<<"Error saving changes.">>, "danger")>>
            /\ tableShown' = FALSE
            /\ slideLeft' = FALSE
       \/ /\ response' = Rejected(req)
          /\ chatBody' = Append(chatBody,
                                 addBubble(<<"Error saving changes: ">> \o NetErr, FALSE))
          /\ toastLog' = <<showToast(<<"Error saving changes.">>, "danger")>>
          /\ UNCHANGED <<tableShown, slideLeft>>
    /\ UNCHANGED <<store, closed, script, gradesShown, tbody, rows, gradeRows, options>>

closeTablePanel_KeepsShift ==
  /\ tableShown
  /\ tableShown' = FALSE
  /\ toastLog' = <<>> /\ confirmLog' = <<>> /\ thrown' = FALSE
  /\ response' = <<>>
  /\ UNCHANGED <<store, closed, script, slideLeft, gradesShown, tbody, rows, gradeRows, options,
                 chatBody, net>>

\* closeTablePanel()
closeTablePanel ==
  /\ tableShown
  /\ tableShown' = FALSE
  /\ slideLeft' = FALSE
  /\ toastLog' = <<>> /\ confirmLog' = <<>> /\ thrown' = FALSE
  /\ response' = <<>>
  /\ UNCHANGED <<store, closed, script, gradesShown, tbody, rows, gradeRows, options, chatBody, net>>

(***************************************************************************)
(* Grades panel (scripts.js only).                                         *)
(***************************************************************************)
Digits == <<"0", "1", "2", "3", "4", "5", "6", "7", "8", "9">>

IsDigit(c) == \E d \in 1..10 : Digits[d] = c

DigitValue(c) == (CHOOSE d \in 1..10 : Digits[d] = c) - 1

\* `${n}` of a non-negative integer.
RECURSIVE ToText(_)
ToText(n) ==
  IF n < 10 THEN <<Digits[n + 1]>> ELSE ToText(n \div 10) \o <<Digits[(n % 10) + 1]>>

\* `${terms.term1 || ''}`: 0 and an absent mark (modelled as 0) print as "".
TermText(n) == IF n = 0 THEN <<>> ELSE ToText(n)

\* parseInt(s) || 0 for an unsigned s: the leading digits, 0 when there are none.
RECURSIVE LeadingInt(_, _)
LeadingInt(s, acc) ==
  IF s # <<>> /\ IsDigit(Head(s))
  THEN LeadingInt(Tail(s), 10 * acc + DigitValue(Head(s)))
  ELSE acc

parseIntOr0_Length(s) == Len(s)

parseIntOr0(s) == LeadingInt(s, 0)

\* A /get_grades request the server has read the store for: its answer is
\* fixed, its response is still to arrive.
Served(grades) == [kind |-> "get_grades", served |-> grades]

\* The lists the store holds, or held when a request in flight was served.
Held ==
  {store} \cup { r.served : r \in { q \in BagToSet(net) : "served" \in DOMAIN q } }

\* data.grades of /get_grades (in the response, <<g>> is a body with the field
\* and <<>> one without): subjects, each with the marks of its students
\* in the order of Object.entries.
GradesLists ==
  { <<>>,
    << [subject_id |-> <<"S1">>, subject_name |-> <<"Math">>,
        marks |-> << [student_id |-> <<"42">>,
                      terms |-> [term1 |-> 85, term2 |-> 0, term3 |-> 7]] >>] >> }
    \cup Held

\* Texts the user may type into a term cell; a text is a sequence of characters.
GradeTexts == { <<"a">> }

\* The term cells (cells[3..5]) the user edits in the model.
GradeEditCols == { 4 }

\* One <tr> of renderGradesTable; del holds the arguments written into the
\* button's onclick.
GradeRow(subject, entry) ==
  [cells |-> << subject.subject_id, subject.subject_name, entry.student_id,
                TermText(entry.terms.term1), TermText(entry.terms.term2),
                TermText(entry.terms.term3) >>,
   del |-> <<subject.subject_id, entry.student_id>>]

\* renderGradesTable(grades): the rows of the new table body.
RECURSIVE renderGradesTable(_)
renderGradesTable(grades) ==
  IF grades = <<>> THEN <<>>
  ELSE [j \in 1..Len(Head(grades).marks) |-> GradeRow(Head(grades), Head(grades).marks[j])]
         \o renderGradesTable(Tail(grades))

\* openGradesPanel() up to its fetch, on the requests n.
openGradesPanel(n) == Issue(n, [kind |-> "get_grades"], 1)

\* closeGradesPanel()
closeGradesPanel ==
  /\ script = "scripts"
  /\ gradesShown
  /\ gradesShown' = FALSE
  /\ toastLog' = <<>> /\ confirmLog' = <<>> /\ thrown' = FALSE
  /\ response' = <<>>
  /\ UNCHANGED <<script, tableShown, slideLeft, tbody, rows, gradeRows, options,
                 chatBody, net>>

\* toggleGradesPanel()
toggleGradesPanel ==
  /\ script = "scripts"
  /\ toastLog' = <<>> /\ confirmLog' = <<>> /\ thrown' = FALSE
  /\ IF gradesShown
       THEN /\ gradesShown' = FALSE
            /\ UNCHANGED net
       ELSE /\ InFlight < MaxNet
            /\ net' = openGradesPanel(net)
            /\ UNCHANGED gradesShown
  /\ response' = <<>>
  /\ UNCHANGED <<script, tableShown, slideLeft, tbody, rows, gradeRows, options,
                 chatBody>>

openGradesPanelResolve_ClosesOnFailure ==
  \E req \in Pending("get_grades") :
    /\ confirmLog' = <<>> /\ thrown' = FALSE
    /\ net' = Settle(net, req)
    /\ \/ \E grades \in GradesLists :
            /\ response' = Resolved(req, [grades |-> <<grades>>])
            /\ gradeRows' = renderGradesTable(grades)
            /\ gradesShown' = TRUE
            /\ toastLog' = <<>>
       \/ /\ response' = Rejected(req)
          /\ toastLog' = <<showToast(<<"Error fetching grades.">>, "danger")>>
          /\ gradesShown' = FALSE
          /\ UNCHANGED gradeRows
    /\ UNCHANGED <<script, tableShown, slideLeft, tbody, rows, options, chatBody>>

openGradesPanelResolve_Appends ==
  \E req \in Pending("get_grades") :
    /\ confirmLog' = <<>> /\ thrown' = FALSE
    /\ net' = Settle(net, req)
    /\ \E grades \in GradesLists :
         /\ response' = Resolved(req, [grades |-> <<grades>>])
         /\ gradeRows' = gradeRows \o renderGradesTable(grades)
         /\ gradesShown' = TRUE
         /\ toastLog' = <<>>
    /\ UNCHANGED <<script, tableShown, slideLeft, tbody, rows, options, chatBody>>

\* openGradesPanel() after its fetch.
openGradesPanelResolve ==
  \E req \in Pending("get_grades") :
    /\ confirmLog' = <<>> /\ thrown' = FALSE
    /\ net' = Settle(net, req)
    /\ \/ \E grades \in GradesLists :
            /\ response' = Resolved(req, [grades |-> <<grades>>])
            /\ gradeRows' = renderGradesTable(grades)
            /\ gradesShown' = TRUE
            /\ toastLog' = <<>>
       \/ /\ response' = Resolved(req, [grades |-> <<>>])
          /\ toastLog' = <<showToast(<<"Failed to load grades.">>, "danger")>>
          /\ UNCHANGED <<gradeRows, gradesShown>>
       \/ /\ response' = Rejected(req)
          /\ toastLog' = <<showToast(<<"Error fetching grades.">>, "danger")>>
          /\ UNCHANGED <<gradeRows, gradesShown>>
    /\ UNCHANGED <<script, tableShown, slideLeft, tbody, rows, options, chatBody>>

\* The user types into a term cell of the grade grid.
EditGradeCell ==
  \E i \in 1..Len(gradeRows) : \E k \in GradeEditCols : \E t \in GradeTexts :
    /\ gradesShown
    /\ gradeRows' = [gradeRows EXCEPT ![i].cells[k + 1] = t]
    /\ toastLog' = <<>> /\ confirmLog' = <<>> /\ thrown' = FALSE
    /\ response' = <<>>
    /\ UNCHANGED <<script, tableShown, slideLeft, gradesShown, tbody, rows, options,
                   chatBody, net>>

\* The three objects saveGradesEdits pushes for a row.
GradeUnits(r) ==
  [t \in 1..3 |->
     [subject_id |-> trim(r.cells[1]), subject_name |-> trim(r.cells[2]),
      student_id |-> trim(r.cells[3]),
      term |-> <<"term1", "term2", "term3">>[t],
      marks |-> parseIntOr0(trim(r.cells[3 + t]))]]

RECURSIVE GradeUpdates(_)
GradeUpdates(rs) ==
  IF rs = <<>> THEN <<>> ELSE GradeUnits(Head(rs)) \o GradeUpdates(Tail(rs))

SendNext_RefreshEveryUnit(n, updates) ==
  IF updates = <<>> THEN openGradesPanel(n)
  ELSE Issue(openGradesPanel(n), [kind |-> "update_grades", unit |-> Head(updates),
                                  rest |-> Tail(updates)], 1)

\* The loop of saveGradesEdits over the updates still to send: the next
\* fetch, or after the last one the refresh.
SendNext(n, updates) ==
  IF updates = <<>> THEN openGradesPanel(n)
  ELSE Issue(n, [kind |-> "update_grades", unit |-> Head(updates),
                 rest |-> Tail(updates)], 1)

\* saveGradesEdits() up to its first await.
saveGradesEdits ==
  /\ script = "scripts"
  /\ gradesShown
  /\ InFlight < MaxNet
  /\ net' = SendNext(net, GradeUpdates(gradeRows))
  /\ toastLog' = <<>> /\ confirmLog' = <<>> /\ thrown' = FALSE
  /\ response' = <<>>
  /\ UNCHANGED <<script, tableShown, slideLeft, gradesShown, tbody, rows, gradeRows,
                 options, chatBody>>

\* The toast of a settled call that answers {message} or {error}.
OutcomeToast(data) ==
  IF Truthy(data.message) THEN <<showToast(data.message, "success")>>
  ELSE IF Truthy(data.error) THEN <<showToast(data.error, "danger")>>
  ELSE <<>>

saveGradesEditsResolve_StopsOnFailure ==
  \E req \in Pending("update_grades") :
    /\ confirmLog' = <<>> /\ thrown' = FALSE
    /\ \/ \E data \in MessageData \cup ErrorData \cup EmptyData :
            /\ response' = Resolved(req, data)
            /\ toastLog' = OutcomeToast(data)
            /\ net' = SendNext(Settle(net, req), req.rest)
       \/ /\ response' = Rejected(req)
          /\ toastLog' = <<showToast(<<"Error updating grades.">>, "danger")>>
          /\ net' = Settle(net, req)
    /\ UNCHANGED <<script, tableShown, slideLeft, gradesShown, tbody, rows, gradeRows,
                   options, chatBody>>

\* saveGradesEdits(): one update settled, the loop goes on.
saveGradesEditsResolve ==
  \E req \in Pending("update_grades") :
    /\ confirmLog' = <<>> /\ thrown' = FALSE
    /\ net' = SendNext(Settle(net, req), req.rest)
    /\ \/ \E data \in MessageData \cup ErrorData \cup EmptyData :
            /\ response' = Resolved(req, data)
            /\ toastLog' = OutcomeToast(data)
       \/ /\ response' = Rejected(req)
          /\ toastLog' = <<showToast(<<"Error updating grades.">>, "danger")>>
    /\ UNCHANGED <<script, tableShown, slideLeft, gradesShown, tbody, rows, gradeRows,
                   options, chatBody>>

\* deleteGrade(subject_id, student_id) up to its first await: the onclick of
\* the delete button of gradeRows[i].
deleteGrade ==
  \E i \in 1..Len(gradeRows) : \E answer \in BOOLEAN :
    /\ script = "scripts"
    /\ gradesShown
    /\ toastLog' = <<>> /\ thrown' = FALSE
    /\ confirmLog' = <<[kind |-> "grade", about |-> gradeRows[i].del,
                         answer |-> answer]>>
    /\ IF Confirmed(answer)
         THEN /\ InFlight < MaxNet
              /\ net' = Issue(net, [kind |-> "delete_grade",
                                    subject_id |-> gradeRows[i].del[1],
                                    student_id |-> gradeRows[i].del[2]], 1)
         ELSE UNCHANGED net
    /\ response' = <<>>
    /\ UNCHANGED <<script, tableShown, slideLeft, gradesShown, tbody, rows, gradeRows,
                   options, chatBody>>

\* deleteGrade() after its awaits.
deleteGradeResolve ==
  \E req \in Pending("delete_grade") :
    /\ confirmLog' = <<>> /\ thrown' = FALSE
    /\ \/ \E data \in MessageData \cup ErrorData \cup EmptyData :
            /\ response' = Resolved(req, data)
            /\ toastLog' = OutcomeToast(data)
            /\ net' = IF Truthy(data.message)
                       THEN openGradesPanel(Settle(net, req))
                       ELSE Settle(net, req)
       \/ /\ response' = Rejected(req)
          /\ toastLog' = <<showToast(<<"Error deleting grade.">>, "danger")>>
          /\ net' = Settle(net, req)
    /\ UNCHANGED <<script, tableShown, slideLeft, gradesShown, tbody, rows, gradeRows,
                   options, chatBody>>

NextStudents ==
  \/ sendPrompt
  \/ sendPromptResolve
  \/ populateClassDivisionFilterResolve
  \/ DeleteClick
  \/ deleteStudentResolve
  \/ addNewRow
  \/ EditCell
  \/ saveTableEdits
  \/ saveTableEditsResolve
  \/ closeTablePanel

\* In Spec the server is left open: /get_grades answers with any list, and
\* store and closed are not followed.
NextGrades ==
  \/ toggleGradesPanel /\ UNCHANGED <<store, closed>>
  \/ openGradesPanelResolve /\ UNCHANGED <<store, closed>>
  \/ closeGradesPanel /\ UNCHANGED <<store, closed>>
  \/ EditGradeCell /\ UNCHANGED <<store, closed>>
  \/ saveGradesEdits /\ UNCHANGED <<store, closed>>
  \/ saveGradesEditsResolve /\ UNCHANGED <<store, closed>>
  \/ deleteGrade /\ UNCHANGED <<store, closed>>
  \/ deleteGradeResolve /\ UNCHANGED <<store, closed>>

Next == NextStudents \/ NextGrades

Spec == Init /\ [][Next]_vars

(***************************************************************************)
(* The grades panel against a remote store.  The server is not part of the *)
(* repository; the store follows the calls of the page: /get_grades reads  *)
(* it, /update_grades sets one term's mark, /delete_grade removes the      *)
(* marks of one student in one subject.  A response may arrive any time    *)
(* after the server has read or written the store.                         *)
(***************************************************************************)
\* What the store may hold when the page loads.
StoreInit ==
  { << [subject_id |-> <<"S1">>, subject_name |-> <<"Math">>,
        marks |-> << [student_id |-> <<"42">>,
                      terms |-> [term1 |-> 85, term2 |-> 0, term3 |-> 7]] >>] >>,
    << [subject_id |-> <<"S1">>, subject_name |-> <<"Math">>,
        marks |-> << [student_id |-> <<>>,
                      terms |-> [term1 |-> 85, term2 |-> 0, term3 |-> 7]] >>] >> }

\* /delete_grade {subject_id, student_id} on the store st.
RemoveMark(st, subject_id, student_id) ==
  [i \in 1..Len(st) |->
     IF st[i].subject_id = subject_id
       THEN [st[i] EXCEPT !.marks = SelectSeq(@, LAMBDA e : e.student_id # student_id)]
       ELSE st[i]]

\* /update_grades {subject_id, student_id, term, marks} on the store st.
SetMark(st, unit) ==
  [i \in 1..Len(st) |->
     IF st[i].subject_id = unit.subject_id
       THEN [st[i] EXCEPT !.marks =
               [j \in 1..Len(@) |->
                  IF @[j].student_id = unit.student_id
                    THEN [@[j] EXCEPT !.terms[unit.term] = unit.marks]
                    ELSE @[j]]]
       ELSE st[i]]

\* The server reads the store for a /get_grades request in flight.
ServeGrades ==
  /\ [kind |-> "get_grades"] \in BagToSet(net)
  /\ net' = Issue(Settle(net, [kind |-> "get_grades"]), Served(store), 1)
  /\ toastLog' = <<>> /\ confirmLog' = <<>> /\ thrown' = FALSE
  /\ response' = <<>>
  /\ UNCHANGED <<script, tableShown, slideLeft, gradesShown, tbody, rows, gradeRows,
                 options, chatBody, store, closed>>

\* The grades of a /get_grades response are what the server read: at the
\* time it served the request, or now if it had not yet.
AnswersStore ==
  LET r == response'[1]
  IN  (r.ok /\ r.data.grades # <<>>) =>
        r.data.grades[1] = (IF "served" \in DOMAIN r.req THEN r.req.served ELSE store)

\* The server applied the call that settled with {message}, and nothing else.
AppliesToStore ==
  LET r == response'[1]
  IN  store' = IF r.ok /\ Truthy(r.data.message)
                 THEN IF r.req.kind = "delete_grade"
                        THEN RemoveMark(store, r.req.subject_id, r.req.student_id)
                        ELSE SetMark(store, r.req.unit)
                 ELSE store

InitGrades ==
  /\ script = "scripts"
  /\ tableShown = FALSE
  /\ slideLeft = FALSE
  /\ gradesShown = FALSE
  /\ tbody = FALSE
  /\ rows = <<>>
  /\ gradeRows = <<>>
  /\ options = <<>>
  /\ chatBody = <<>>
  /\ net = EmptyBag
  /\ toastLog = <<>>
  /\ confirmLog = <<>>
  /\ thrown = FALSE
  /\ response = <<>>
  /\ store \in StoreInit
  /\ closed = FALSE

\* The handlers of the grades panel with the store and with `closed`
\* followed: closing sets it, the user's toggle (to open), save and confirmed
\* delete reset it.
NextOnStore ==
  \/ toggleGradesPanel /\ closed' = gradesShown /\ UNCHANGED store
  \/ closeGradesPanel /\ closed' = TRUE /\ UNCHANGED store
  \/ EditGradeCell /\ UNCHANGED <<store, closed>>
  \/ saveGradesEdits /\ closed' = FALSE /\ UNCHANGED store
  \/ deleteGrade /\ closed' = (closed /\ ~Confirmed(confirmLog'[1].answer))
                 /\ UNCHANGED store
  \/ ServeGrades
  \/ openGradesPanelResolve /\ AnswersStore /\ UNCHANGED <<store, closed>>
  \/ saveGradesEditsResolve /\ AppliesToStore /\ UNCHANGED closed
  \/ deleteGradeResolve /\ AppliesToStore /\ UNCHANGED closed

SpecGrades == InitGrades /\ [][NextOnStore]_vars

(***************************************************************************)
(* The conversation alone, with room for two prompts in flight at once:    *)
(* the prompt box is never disabled, so the user may send a second prompt  *)
(* before the first one is answered.                                       *)
(***************************************************************************)
MaxTalk == 4

TalkPrompts == Prompts \cup { <<"show grades">> }

NextChat ==
  \/ sendPromptFrom(TalkPrompts, MaxTalk)
  \/ sendPromptResolveWithin(MaxTalk)
  \/ populateClassDivisionFilterResolve

SpecChat == Init /\ [][NextChat]_vars

(***************************************************************************)
(* Properties.                                                             *)
(***************************************************************************)
\* What settled in this state, if anything did.
Settled(kind) == response # <<>> /\ response[1].req.kind = kind

Els(rs) == { rs[i].el : i \in 1..Len(rs) }

HasToast(log, type) == \E k \in 1..Len(log) : log[k].type = type

\* The requests of `kind` issued by the step.
Issued(kind, before, after) ==
  { r \in BagToSet(after) : r.kind = kind /\ CopiesIn(r, after) > CopiesIn(r, before) }

\* C1: in every reachable state at most one of the student panel and the
\* grades panel is shown.
C1_PanelMutualExclusion == ~(tableShown /\ gradesShown)

\* C2: a bulk update that fails (success:false, or the request itself fails)
\* leaves an open student panel open.
C2_FailedSaveKeepsPanelOpen ==
  [][ ( /\ tableShown
        /\ response' # <<>>
        /\ response'[1].req.kind = "bulk_update_students"
        /\ (response'[1].ok => ~response'[1].data.success) )
      => tableShown' ]_vars

\* The bulk update was rejected by the server with the error string e.
BulkRejectedWith(e) ==
  /\ Settled("bulk_update_students")
  /\ response[1].ok
  /\ ~response[1].data.success
  /\ response[1].data.error = e

\* C3 as claimed: a rejection with error e shows a danger toast whose text
\* contains e.
C3_RejectionToastCarriesError ==
  [][ \A e \in Errors :
        BulkRejectedWith(e)' =>
          \E k \in 1..Len(toastLog') :
            toastLog'[k].type = "danger" /\ includes(toastLog'[k].msg, e) ]_vars

\* C3 as amended: a rejection with error e shows the danger toast "Error
\* saving changes." and appends to the conversation log one system bubble
\* whose text contains e.
C3_RejectionSurfacedInLog ==
  [][ \A e \in Errors :
        BulkRejectedWith(e)' =>
          /\ toastLog' = <<showToast(<<"Error saving changes.">>, "danger")>>
          /\ Len(chatBody') = Len(chatBody) + 1
          /\ SubSeq(chatBody', 1, Len(chatBody)) = chatBody
          /\ chatBody'[Len(chatBody')].kind = "ai-msg"
          /\ includes(chatBody'[Len(chatBody')].text, e) ]_vars

C3_Witness ==
  \E e \in Errors :
    /\ BulkRejectedWith(e)
    /\ chatBody # <<>>
    /\ includes(chatBody[Len(chatBody)].text, e)

\* C4: no step of saveTableEdits, whatever its outcome, changes the rows of
\* the student grid or the text of any of their cells.
C4_SaveLeavesGrid ==
  [][ (saveTableEdits \/ saveTableEditsResolve) => rows' = rows ]_vars

C4_Witness ==
  /\ Settled("bulk_update_students")
  /\ ~response[1].ok
  /\ \E i \in 1..Len(rows) :
       \E k \in 1..Len(response[1].req.updates) :
         response[1].req.updates[k].id = trim(Cell(rows[i], 0))

\* A placeholder row: the identity cell is empty after
\* trimming or is "ID".
PlaceholderId(text) == TrimRight(TrimLeft(text)) \in { <<>>, <<"ID">> }

\* C5: the update set saveTableEdits sends holds no entry of a placeholder
\* row: every entry carries a valid identity, and there are no more entries
\* than rows with a valid identity.
C5_PlaceholderRowsExcluded ==
  [][ \A req \in Issued("bulk_update_students", net, net') :
        /\ \A k \in 1..Len(req.updates) : ~PlaceholderId(req.updates[k].id)
        /\ Len(req.updates)
             <= Cardinality({ i \in 1..Len(rows) : ~PlaceholderId(Cell(rows[i], 0)) }) ]_vars

C5_Witness ==
  /\ Pending("bulk_update_students") # {}
  /\ \E i \in 1..Len(rows) :
       /\ PlaceholderId(Cell(rows[i], 0))
       /\ \A k \in 1..4 : TrimRight(TrimLeft(Cell(rows[i], k))) # <<>>

\* C6: a delete click on a row whose identity cell is "ID" shows warnings
\* only, asks no confirmation, issues no request and keeps the row.
C6_HeaderRowNeverDeleted ==
  [][ \A i \in 1..Len(rows) :
        (DeleteClickOn(i) /\ TrimRight(TrimLeft(Cell(rows[i], 0))) = <<"ID">>) =>
          /\ toastLog' # <<>>
          /\ \A k \in 1..Len(toastLog') : toastLog'[k].type = "warning"
          /\ confirmLog' = <<>>
          /\ net' = net
          /\ rows' = rows ]_vars

C6_Witness ==
  /\ toastLog # <<>>
  /\ toastLog[1] = [msg |-> <<"Cannot delete header row.">>, type |-> "warning"]
  /\ \E i \in 1..Len(rows) : Cell(rows[i], 0) = <<" ", "ID">>
  /\ net = EmptyBag

\* The affirmative answers the step got for one identity.
Affirmed(log, kind, about) ==
  Cardinality({ k \in 1..Len(log) :
                  log[k].kind = kind /\ log[k].about = about /\ log[k].answer })

\* C7: a step issues at most as many delete requests for an identity as it
\* got affirmative answers to the confirmation prompt for that identity, and
\* a step in which every prompt was declined issues nothing and keeps the rows.
C7_ConfirmationGate ==
  [][ /\ \A req \in Issued("delete_student", net, net') :
           CopiesIn(req, net') - CopiesIn(req, net)
             <= Affirmed(confirmLog', "student", req.id)
      /\ \A req \in Issued("delete_grade", net, net') :
           CopiesIn(req, net') - CopiesIn(req, net)
             <= Affirmed(confirmLog', "grade", <<req.subject_id, req.student_id>>)
      /\ (confirmLog' # <<>> /\ \A k \in 1..Len(confirmLog') : ~confirmLog'[k].answer)
           => (net' = net /\ rows' = rows /\ gradeRows' = gradeRows) ]_vars

C7_Witness ==
  /\ confirmLog # <<>>
  /\ \A k \in 1..Len(confirmLog) :
       /\ ~confirmLog[k].answer
       /\ confirmLog[k].kind = "student"
       /\ \E i \in 1..Len(rows) : trim(Cell(rows[i], 0)) = confirmLog[k].about
  /\ net = EmptyBag

\* The delete request for a row settled with a success response.
DeleteSucceeded(el) ==
  /\ Settled("delete_student")
  /\ response[1].req.el = el
  /\ response[1].ok
  /\ response[1].data.message # <<>>

\* The delete request settled with a remote error or a network failure.
DeleteFailed ==
  /\ Settled("delete_student")
  /\ response[1].ok => (response[1].data.message = <<>> /\ response[1].data.error # <<>>)

\* A table reply arrived: parseReply replaces the whole grid.
GridReplaced ==
  /\ Settled("process_prompt")
  /\ response[1].ok
  /\ IsTableReply(Or(response[1].data.message,
                     Or(response[1].data.error, <<"No response.">>)))

\* C8: apart from a table reply, which replaces the whole grid, a row leaves
\* the student grid only in the step in which the delete request for that
\* row settles with a success response; a delete that settles with a remote
\* error or a network failure keeps the rows and shows a danger toast.
C8_NoOptimisticRemoval ==
  [][ /\ \A el \in Els(rows) \ Els(rows') :
           DeleteSucceeded(el)' \/ GridReplaced'
      /\ DeleteFailed' => (rows' = rows /\ HasToast(toastLog', "danger")) ]_vars

C8_Witness ==
  /\ DeleteFailed
  /\ response[1].req.el \in Els(rows)
  /\ HasToast(toastLog, "danger")

\* An invalid row: a valid identity, and an empty name, class
\* or division (cells[1], cells[3], cells[4]) after trimming.
InvalidRow(r) ==
  /\ ~PlaceholderId(Cell(r, 0))
  /\ \E k \in {1, 3, 4} : TrimRight(TrimLeft(Cell(r, k))) = <<>>

ValidRow(r) ==
  /\ ~PlaceholderId(Cell(r, 0))
  /\ \A k \in {1, 3, 4} : TrimRight(TrimLeft(Cell(r, k))) # <<>>

\* C9: saveTableEdits shows for every invalid row a warning naming the
\* row's identity and sends no entry for it.
C9_InvalidRowsWarnedAndExcluded ==
  [][ saveTableEdits =>
        \A i \in 1..Len(rows) :
          InvalidRow(rows[i]) =>
            /\ \E k \in 1..Len(toastLog') :
                 /\ toastLog'[k].type = "warning"
                 /\ includes(toastLog'[k].msg, TrimRight(TrimLeft(Cell(rows[i], 0))))
            /\ \A req \in Issued("bulk_update_students", net, net') :
                 \A k \in 1..Len(req.updates) :
                   req.updates[k].id # TrimRight(TrimLeft(Cell(rows[i], 0))) ]_vars

\* The identities of the valid rows, in grid order.
RECURSIVE ValidIds(_)
ValidIds(rs) ==
  IF rs = <<>> THEN <<>>
  ELSE (IF ValidRow(Head(rs)) THEN <<TrimRight(TrimLeft(Cell(Head(rs), 0)))>> ELSE <<>>)
         \o ValidIds(Tail(rs))

\* C10: on a grid with an invalid row and a valid row, saveTableEdits issues
\* exactly one bulk-update request, whose entries are the valid rows in grid
\* order.
C10_ValidRowsSentDespiteInvalid ==
  [][ ( /\ saveTableEdits
        /\ \E i \in 1..Len(rows) : InvalidRow(rows[i])
        /\ \E i \in 1..Len(rows) : ValidRow(rows[i]) )
      => \E req \in Issued("bulk_update_students", net, net') :
           /\ BagCardinality(net') = BagCardinality(net) + 1
           /\ [k \in 1..Len(req.updates) |-> req.updates[k].id] = ValidIds(rows) ]_vars

\* C11: building the update set never ends saveTableEdits with an uncaught
\* exception, whatever the age cells hold.
C11_SafeIntNeverAborts ==
  [][ saveTableEdits => ~thrown' ]_vars

\* m is the integer a term cell's text stands for: 0 for an empty text and
\* for a text that does not start with a digit, the number written for a
\* text of digits.
MarksOf(text, m) ==
  /\ m \in Nat
  /\ (text = <<>> \/ ~IsDigit(text[1])) => m = 0
  /\ (text # <<>> /\ text[1] # "0" /\ \A k \in 1..Len(text) : IsDigit(text[k]))
       => ToText(m) = text

\* The update units of a saveGradesEdits run, read off its first request.
UnitsOf(req) == <<req.unit>> \o req.rest

\* C12: saveGradesEdits makes three units of every row of the grade grid, for
\* term1, term2 and term3 in this order, each with the row's subject_id and
\* student_id and with the integer of the trimmed term cell as marks, 0 when
\* the cell is empty or not a number.
C12_ThreeUnitsPerRow ==
  [][ saveGradesEdits =>
        IF gradeRows = <<>>
        THEN Issued("update_grades", net, net') = {}
        ELSE \E req \in Issued("update_grades", net, net') :
               /\ Len(UnitsOf(req)) = 3 * Len(gradeRows)
               /\ \A i \in 1..Len(gradeRows) : \A t \in 1..3 :
                    LET u == UnitsOf(req)[3 * (i - 1) + t]
                        r == gradeRows[i]
                    IN  /\ u.subject_id = TrimRight(TrimLeft(r.cells[1]))
                        /\ u.student_id = TrimRight(TrimLeft(r.cells[3]))
                        /\ u.term = <<"term1", "term2", "term3">>[t]
                        /\ MarksOf(TrimRight(TrimLeft(r.cells[3 + t])), u.marks) ]_vars

C12_Witness ==
  \E req \in Pending("update_grades") : \E i \in 1..Len(gradeRows) :
    /\ gradeRows[i].cells[4] = <<"8", "5">>
    /\ gradeRows[i].cells[5] = <<"a">>
    /\ Len(UnitsOf(req)) = 3
    /\ UnitsOf(req)[1].marks = 85
    /\ UnitsOf(req)[2].marks = 0

\* The grade fetches the step issued.
Refreshes(before, after) ==
  CopiesIn([kind |-> "get_grades"], after) - CopiesIn([kind |-> "get_grades"], before)

\* C13: a saveGradesEdits run fetches the grades once: in the step in which
\* its last update unit settles, whatever the outcome of the units (at once
\* when the grid has no rows), and in no step before.
C13_OneRefreshAfterBatch ==
  [][ /\ saveGradesEdits =>
           Refreshes(net, net') = IF gradeRows = <<>> THEN 1 ELSE 0
      /\ saveGradesEditsResolve =>
           Refreshes(net, net') = IF response'[1].req.rest = <<>> THEN 1 ELSE 0 ]_vars

C13_Witness ==
  /\ Settled("update_grades")
  /\ ~response[1].ok
  /\ response[1].req.rest = <<>>
  /\ Pending("get_grades") # {}
  /\ Pending("update_grades") = {}

\* The reply parseReply got from the response that settled.
ReplyOf(resp) == Or(resp.data.message, Or(resp.data.error, <<"No response.">>))

\* C14: in the step in which a panel becomes visible its grid is the one of
\* the response that opens it: the grade grid is rendered from the fetched
\* grades and the student grid is built from the reply; and when the grade
\* panel becomes visible the student panel is not.
C14_HydratedBeforeVisible ==
  [][ /\ (gradesShown' /\ ~gradesShown) =>
           /\ Settled("get_grades")'
           /\ response'[1].ok
           /\ response'[1].data.grades # <<>>
           /\ gradeRows' = renderGradesTable(response'[1].data.grades[1])
           /\ ~tableShown'
      /\ (tableShown' /\ ~tableShown) =>
           /\ GridReplaced'
           /\ LET toks == SelectSeq(ReplyOf(response'[1]), LAMBDA t : t \in RowTokens)
              IN  [i \in 1..Len(rows') |-> rows'[i].cells]
                    = [i \in 1..Len(toks) |-> ServerRow(toks[i])] ]_vars

\* The grades of the store were fetched and came as g.
RefreshedWith(g) ==
  /\ Settled("get_grades")
  /\ response[1].ok
  /\ response[1].data.grades = <<g>>

\* C15: of two refreshes of the grade grid that follow one another and fetch
\* the same grades, the second leaves the rows the first left, whatever the
\* grid held before the first.
C15_RefreshIdempotent ==
  [][ \A g \in GradesLists :
        (RefreshedWith(g) /\ RefreshedWith(g)') => gradeRows' = gradeRows ]_vars

C15_Witness ==
  \E g \in GradesLists :
    /\ g # <<>>
    /\ RefreshedWith(g)
    /\ Len(gradeRows) = Len(g[1].marks)
    /\ Pending("get_grades") # {}

\* C16: a delete click on a student row whose prompts the user all affirms
\* issues exactly one request.
C16_OneRequestPerDelete ==
  [][ \A i \in 1..Len(rows) :
        ( /\ DeleteClickOn(i)
          /\ confirmLog' # <<>>
          /\ \A k \in 1..Len(confirmLog') : confirmLog'[k].answer )
        => BagCardinality(net') = BagCardinality(net) + 1 ]_vars

\* Tabular markup or the panel-open marker; the grade marker.
TabularOrMarker(reply) ==
  \E i \in 1..Len(reply) : reply[i] \in {"<table", "slideFromRight"}

HasGradeMarker(reply) == \E i \in 1..Len(reply) : reply[i] = "Grades"

\* C17: a reply with tabular markup or the panel-open marker opens the grade
\* grid when it has the grade marker and the student grid when it has none;
\* a reply with neither is appended to the conversation log.
C17_ThreeWayClassifier ==
  [][ (Settled("process_prompt")' /\ response'[1].ok) =>
        LET reply == ReplyOf(response'[1])
        IN  IF TabularOrMarker(reply) /\ HasGradeMarker(reply)
              THEN gradesShown' \/ Refreshes(net, net') > 0
            ELSE IF TabularOrMarker(reply)
              THEN tableShown'
            ELSE /\ chatBody' # <<>>
                 /\ chatBody'[Len(chatBody')] = [kind |-> "ai-msg", text |-> reply] ]_vars

\* C18: no edit of a cell changes the identity cell of a student row, nor the
\* subject and student identity cells of a grade row.
C18_IdentityReadOnly ==
  [][ /\ EditCell =>
           \A i \in 1..Len(rows) : rows'[i].cells[1] = rows[i].cells[1]
      /\ EditGradeCell =>
           \A i \in 1..Len(gradeRows) :
             /\ gradeRows'[i].cells[1] = gradeRows[i].cells[1]
             /\ gradeRows'[i].cells[3] = gradeRows[i].cells[3] ]_vars

\* A row of addNewRow: of part_002 (the only rows with an editable identity
\* cell), or of scripts.js (its identity cell stays "ID").
AddedRow(r) == r.idEditable \/ r.cells[1] = <<"ID">>

\* The identity and the required cells of the row hold neither nothing nor
\* the text addNewRow put there.
Filled(r) ==
  /\ ~PlaceholderId(r.cells[1])
  /\ \A k \in {2, 4, 5} :
       TrimRight(TrimLeft(r.cells[k]))
         \notin {<<>>, <<"Name">>, <<"Class">>, <<"Division">>, <<"Address">>}

\* C19: no update set saveTableEdits sends has an entry for a row of
\* addNewRow that is not filled.
C19_NewRowNotSentUntilFilled ==
  [][ saveTableEdits =>
        \A i \in 1..Len(rows) :
          (AddedRow(rows[i]) /\ ~Filled(rows[i])) =>
            \A req \in Issued("bulk_update_students", net, net') :
              \A k \in 1..Len(req.updates) :
                req.updates[k].id # TrimRight(TrimLeft(rows[i].cells[1])) ]_vars

\* C20: when an update unit of saveGradesEdits settles, with whatever
\* outcome, the next unit of the run is sent and nothing else but it or the
\* refresh; a message gives one success toast, an error or a network failure
\* one danger toast; the grid is left as it is.
C20_PartialBatchFailure ==
  [][ saveGradesEditsResolve =>
        LET resp == response'[1]
        IN  /\ resp.req.rest # <<>> =>
                 \E req \in Issued("update_grades", net, net') :
                   req.unit = Head(resp.req.rest) /\ req.rest = Tail(resp.req.rest)
            /\ BagCardinality(net') = BagCardinality(net)
            /\ \A r \in BagToSet(net') :
                 CopiesIn(r, net') > CopiesIn(r, net)
                   => r.kind \in {"update_grades", "get_grades"}
            /\ IF ~resp.ok
                 THEN Len(toastLog') = 1 /\ toastLog'[1].type = "danger"
               ELSE IF resp.data.message # <<>>
                 THEN toastLog' = <<[msg |-> resp.data.message, type |-> "success"]>>
               ELSE IF resp.data.error # <<>>
                 THEN toastLog' = <<[msg |-> resp.data.error, type |-> "danger"]>>
               ELSE TRUE
            /\ gradeRows' = gradeRows ]_vars

C20_Witness ==
  /\ Settled("update_grades")
  /\ ~response[1].ok
  /\ response[1].req.rest # <<>>
  /\ HasToast(toastLog, "danger")
  /\ \E req \in Pending("update_grades") : req.unit = Head(response[1].req.rest)

\* The kinds of request that change the remote store.
Mutating ==
  {"delete_student", "bulk_update_students", "update_grades", "delete_grade"}

\* The student identities, and the grade entries, a request changes.
StudentTargets(r) ==
  IF r.kind = "delete_student" THEN {r.id}
  ELSE IF r.kind = "bulk_update_students"
    THEN {r.updates[k].id : k \in 1..Len(r.updates)}
  ELSE {}

GradeTargets(r) ==
  IF r.kind = "update_grades" THEN {<<r.unit.subject_id, r.unit.student_id>>}
  ELSE IF r.kind = "delete_grade" THEN {<<r.subject_id, r.student_id>>}
  ELSE {}

\* C21: no two mutating requests in flight change the same row identity.
C21_NoConcurrentMutations ==
  \A r \in BagToSet(net) :
    r.kind \in Mutating =>
      /\ CopiesIn(r, net) = 1
      /\ \A q \in BagToSet(net) \ {r} :
           /\ StudentTargets(r) \cap StudentTargets(q) = {}
           /\ GradeTargets(r) \cap GradeTargets(q) = {}

\* C23: whatever the outcome of a call of deleteStudent, deleteGrade,
\* saveGradesEdits or saveTableEdits, the step in which it settles shows a
\* toast and throws nothing.
C23_EveryOutcomeNotified ==
  [][ ( \/ deleteStudentResolve
        \/ deleteGradeResolve
        \/ saveGradesEditsResolve
        \/ saveTableEditsResolve )
      => (toastLog' # <<>> /\ ~thrown') ]_vars

\* C24: on the page of scripts.js, saveTableEdits on a grid without a valid
\* row issues no request, shows a warning, throws nothing and leaves the
\* panel open.
C24_NoValidRowNoRequest ==
  [][ ( /\ script = "scripts"
        /\ saveTableEdits
        /\ \A i \in 1..Len(rows) : ~ValidRow(rows[i]) )
      => /\ net' = net
         /\ HasToast(toastLog', "warning")
         /\ ~thrown'
         /\ tableShown' ]_vars

C24_Witness ==
  /\ script = "scripts"
  /\ tableShown
  /\ \E i \in 1..Len(rows) : InvalidRow(rows[i])
  /\ \A i \in 1..Len(rows) : ~ValidRow(rows[i])
  /\ Len(toastLog) >= 2
  /\ toastLog[Len(toastLog)]
       = [msg |-> <<"No valid changes to save.">>, type |-> "warning"]
  /\ Pending("bulk_update_students") = {}

\* The message bubbles of the conversation log, without typing indicators.
Bubbles(chat) == SelectSeq(chat, LAMBDA b : b.kind # "typingIndicator")

IsPrefix(a, b) == Len(a) <= Len(b) /\ SubSeq(b, 1, Len(a)) = a

\* C26: every step leaves the message bubbles of the conversation log as
\* they are and in their order, and at most appends to them.
C26_LogAppendOnly ==
  [][ IsPrefix(Bubbles(chatBody), Bubbles(chatBody')) ]_vars

C26_Witness ==
  /\ Settled("process_prompt")
  /\ Len(Bubbles(chatBody)) = 2
  /\ chatBody[1].kind = "user-msg"
  /\ chatBody[2].kind = "ai-msg"

\* C27: the conversation view is shifted exactly when the student panel is
\* shown, before and after every step, and no step of the grades panel
\* changes the shift.
C27_ShiftFollowsStudentPanel ==
  [][ /\ slideLeft = tableShown
      /\ slideLeft' = tableShown'
      /\ NextGrades => slideLeft' = slideLeft ]_vars

C27_Witness ==
  /\ slideLeft
  /\ tableShown
  /\ gradesShown
  /\ Settled("get_grades")

\* C30: a grade fetch that fails (no grades field, or a network failure)
\* leaves the panel shown or hidden as it was and its rows as they were, and
\* shows a danger toast; one that brings a grades list, empty or not, shows
\* the panel with the rows of the list.
C30_FailedFetchKeepsPanel ==
  [][ openGradesPanelResolve =>
        LET resp == response'[1]
        IN  IF resp.ok /\ resp.data.grades # <<>>
              THEN /\ gradesShown'
                   /\ Len(gradeRows') = Len(renderGradesTable(resp.data.grades[1]))
                   /\ resp.data.grades[1] = <<>> => gradeRows' = <<>>
              ELSE /\ gradesShown' = gradesShown
                   /\ gradeRows' = gradeRows
                   /\ HasToast(toastLog', "danger") ]_vars

C30_Witness ==
  /\ Settled("get_grades")
  /\ ~response[1].ok
  /\ gradesShown
  /\ gradeRows # <<>>
  /\ HasToast(toastLog, "danger")

\* C22: once a refresh has filled the grid and nothing is in flight any more,
\* the grid shows the rows of the remote store, whatever the order in which
\* the responses arrived.
C22_GridEqualsStoreWhenQuiet ==
  (net = EmptyBag /\ Settled("get_grades") /\ response[1].ok
     /\ response[1].data.grades # <<>>)
    => gradeRows = renderGradesTable(store)

\* C25: no update unit is submitted for a grade row whose subject_id or
\* student_id is empty after trimming.
C25_EmptyIdentityExcluded ==
  \A r \in Pending("update_grades") :
    Truthy(r.unit.subject_id) /\ Truthy(r.unit.student_id)

\* C28: once the user has closed the grades panel it stays closed until the
\* user's next open action; no completion in flight reopens it.
C28_ClosedStaysClosed == closed => ~gradesShown

\* The typing indicator sendPrompt added for `prompt`: the child appended
\* right after the prompt's user bubble.
IndicatorOf(chat, prompt) ==
  \E i \in 1..(Len(chat) - 1) :
    chat[i] = addBubble(prompt, TRUE) /\ chat[i + 1].kind = "typingIndicator"

\* C29: a prompt's user bubble is in the log when its request is issued; when
\* the request settles exactly one outcome follows (a system bubble, the
\* student panel opened, or a connection-error bubble with a danger toast)
\* and the typing indicator added for that prompt is gone from the log; a
\* step that issues no request and settles none leaves the log alone.
C29_PromptResolvesCleanly ==
  [][ /\ \A r \in Issued("process_prompt", net, net') :
           chatBody' = chatBody \o <<addBubble(r.prompt, TRUE), addTypingIndicator>>
      /\ (response' # <<>> /\ response'[1].req.kind = "process_prompt") =>
           LET r == response'[1]
               grown == Len(Bubbles(chatBody')) = Len(Bubbles(chatBody)) + 1
           IN  /\ IF ~r.ok
                    THEN grown /\ HasToast(toastLog', "danger") /\ tableShown' = tableShown
                    ELSE IF IsTableReply(ReplyOf(r))
                      THEN tableShown' /\ Bubbles(chatBody') = Bubbles(chatBody)
                      ELSE grown /\ tableShown' = tableShown
               /\ CopiesIn(r.req, net) = 1 => ~IndicatorOf(chatBody', r.req.prompt)
      /\ (Issued("process_prompt", net, net') = {} /\ response' = <<>>) =>
           chatBody' = chatBody ]_vars

====
